---- MODULE Spec2Model ----
(***************************************************************************)
(* Model of the teacher portal backend (src/teacher/teacher_app.py): the   *)
(* session gate, the login/logout handlers, the schedule and roster        *)
(* queries, the attendance upsert and the attendance-view merge.           *)
(*                                                                         *)
(* A request handler is one action: it reads the session and the tables,   *)
(* follows the handler's code path (early returns, try/except/finally) and *)
(* leaves its response and its bookkeeping (queries run, connection state) *)
(* in `last`.  The concurrent specification splits mark_attendance into    *)
(* the steps the database sees: one upsert per record, then the commit.    *)
(***************************************************************************)
EXTENDS Integers, Sequences, FiniteSets, TLC

VARIABLES
    session,      \* the client's Flask session: a function field -> value
    attendance,   \* the committed rows of table `attendance`
    tsDefault,    \* whether column attendance.timestamp has a default value
    last,         \* the last finished request: its response and bookkeeping
    pc,           \* per worker: where its mark_attendance request stands
    req,          \* per worker: the request it is serving
    writes,       \* per worker: rows upserted in its open transaction
    applied       \* per key: status of the upsert most recently committed

vars == <<session, attendance, tsDefault, last, pc, req, writes, applied>>

NULL == "NULL"     \* Python None / SQL NULL / a missing request field

----------------------------------------------------------------------------
(* The tables the handlers only read.                                      *)

Teachers ==
    { [teacher_id |-> 5, name |-> "Tina", email |-> "tina@school", password |-> "pw5"],
      [teacher_id |-> 6, name |-> "Omar", email |-> "omar@school", password |-> "pw6"] }

Schedules ==
    { [schedule_id |-> 12, teacher_id |-> 5, batch |-> "B1", day_of_week |-> "Monday",
       start_time |-> 11, end_time |-> 12, class_name |-> "C1", subject_name |-> "Math"],
      [schedule_id |-> 13, teacher_id |-> 5, batch |-> "B2", day_of_week |-> "Monday",
       start_time |-> 9, end_time |-> 10, class_name |-> "C1", subject_name |-> "Art"],
      [schedule_id |-> 14, teacher_id |-> 6, batch |-> "B1", day_of_week |-> "Tuesday",
       start_time |-> 9, end_time |-> 10, class_name |-> "C2", subject_name |-> "Math"] }

Students ==
    { [student_id |-> 1, name |-> "Alice", email |-> "alice@school", batch |-> "B1"],
      [student_id |-> 2, name |-> "Bob",   email |-> "bob@school",   batch |-> "B1"],
      [student_id |-> 3, name |-> "Aaron", email |-> "aaron@school", batch |-> "B1"],
      [student_id |-> 4, name |-> "Zoe",   email |-> "zoe@school",   batch |-> "B2"] }

\* The collation ORDER BY uses: strings in ascending order.
Collation == <<"Aaron", "Alice", "Art", "B1", "B2", "Bob", "C1", "C2", "Math", "Zoe">>

Rank(s) == CHOOSE i \in 1..Len(Collation) : Collation[i] = s

\* str(x) of a time or timestamp value: a text, no longer the value itself.
Str(x) == <<"str", x>>

\* MySQL compares an integer column with a text parameter by its number.
ArgInt(s) ==
    CASE s = "12" -> 12 [] s = "13" -> 13 [] s = "14" -> 14 [] s = "99" -> 99
      [] OTHER -> 0

----------------------------------------------------------------------------
(* Sequences.                                                              *)

Range(s) == { s[i] : i \in 1..Len(s) }

\* The rows of S in ascending order of key[row] (key is one-to-one on S).
RECURSIVE SortBy(_, _)
SortBy(S, key) ==
    IF S = {} THEN <<>>
    ELSE LET m == CHOOSE x \in S : \A y \in S : key[x] <= key[y]
         IN <<m>> \o SortBy(S \ {m}, key)

\* Every order the rows of S can come back in when the query has no ORDER BY.
AnyOrder(S) ==
    { s \in [1..Cardinality(S) -> S] : Range(s) = S }

\* Sequences over S of length lo..hi.
SeqsOf(S, lo, hi) == UNION { [1..n -> S] : n \in lo..hi }
----------------------------------------------------------------------------
(* Requests, faults and responses.                                         *)

\* What can go wrong below the handler: create_connection() returns None,
\* the at-th cursor.execute raises mysql.connector.Error (with the
\* connection kept or lost), or conn.commit() raises it.
NoFault   == [kind |-> "none", at |-> 0]
ConnFail  == [kind |-> "connfail", at |-> 0]
ErrAt(i)  == [kind |-> "err", at |-> i]
LostAt(i) == [kind |-> "lost", at |-> i]
CommitErr == [kind |-> "commit", at |-> 0]

Fails(fault, i) == fault.kind \in {"err", "lost"} /\ fault.at = i

\* The session before any login and after session.clear().
EmptySession == [k \in {} |-> NULL]

\* jsonify({'success': False, 'message': m}), code
Failure(m) == [success |-> FALSE, message |-> m]

\* An exception no except clause of the handler catches: Flask answers 500
\* with its own error page, not with the handler's JSON.
Uncaught(e) == [exception |-> e]

\* create_connection(): a connection, or None.
Connect(fault) == IF fault.kind = "connfail" THEN "none" ELSE "open"

\* The connection after a query: a lost connection is no longer connected.
AfterQuery(fault, i) == IF fault.kind = "lost" /\ fault.at = i THEN "lost" ELSE "open"

\* Mutant: no finally clause, the connection is never closed.
FinallyNoClose(conn) == conn

\* finally: if conn.is_connected(): conn.close()
Finally(conn) == IF conn = "open" THEN "closed" ELSE conn

\* A finished request. `ran` lists the statements the handler sent to the
\* database, `opened` counts the connections it obtained, `conn` is the state
\* its connection is left in, `escaped` tells an exception left the handler.
Finished(handler, args, fault, code, body, ran, conn, escaped) ==
    [handler |-> handler, args |-> args, fault |-> fault, code |-> code,
     body |-> body, ran |-> ran,
     opened |-> IF conn = "none" THEN 0 ELSE 1,
     conn |-> conn, escaped |-> escaped]

\* Mutant: a handler without the teacher_required gate.
IsTeacherAlways(sess) == TRUE

\* teacher_required: the session marks the caller as a teacher.
IsTeacher(sess) == "user_type" \in DOMAIN sess /\ sess["user_type"] = "teacher"

\* teacher_required's answer to an /api/ path without a teacher session.
Rejected(handler, args, fault) ==
    Finished(handler, args, fault, 401, Failure("Authentication required"),
             <<>>, "none", FALSE)

\* if not conn: return jsonify({'success': False, 'message': 'Database error'}), 500
NoConnection(handler, args, fault) ==
    Finished(handler, args, fault, 500, Failure("Database error"), <<>>, "none", FALSE)

----------------------------------------------------------------------------
(* POST /teacher/login, POST /teacher/logout, GET /api/teacher/session     *)

\* Mutant: the lookup matches on the email alone.
TeacherLookupEmailOnly(email, password) ==
    { t \in Teachers : t.email = email }

\* SELECT * FROM Teachers WHERE email = %s AND password = %s; fetchone()
TeacherLookup(email, password) ==
    { t \in Teachers : t.email = email /\ t.password = password }

\* session['user_type'] = ...; session['user_id'] = ...; session['user_name'] = ...
SetSession(sess, teacher) ==
    [k \in DOMAIN sess \cup {"user_type", "user_id", "user_name"} |->
        CASE k = "user_type" -> "teacher"
          [] k = "user_id"   -> teacher.teacher_id
          [] k = "user_name" -> teacher.name
          [] OTHER           -> sess[k]]

\* The response of teacher_login_action and the session it leaves.
LoginOutcome(sess, email, password, fault) ==
    LET args  == [email |-> email, password |-> password]
        found == TeacherLookup(email, password)
        ran   == <<"teacher_lookup">>
    IN  IF email = NULL \/ password = NULL
        THEN [session |-> sess,
              resp |-> Finished("login", args, fault, 400,
                                Failure("Email and password are required."),
                                <<>>, "none", FALSE)]
        ELSE IF Connect(fault) = "none"
        THEN [session |-> sess, resp |-> NoConnection("login", args, fault)]
        ELSE IF Fails(fault, 1)
        THEN [session |-> sess,
              resp |-> Finished("login", args, fault, 500,
                                Uncaught("mysql.connector.Error"), ran,
                                Finally(AfterQuery(fault, 1)), TRUE)]
        ELSE IF found # {}
        THEN LET teacher == CHOOSE t \in found : TRUE
             IN [session |-> SetSession(sess, teacher),
                 resp |-> Finished("login", args, fault, 200,
                                   [success |-> TRUE,
                                    teacher |-> [name |-> teacher.name,
                                                 id |-> teacher.teacher_id]],
                                   ran, Finally("open"), FALSE)]
        ELSE [session |-> sess,
              resp |-> Finished("login", args, fault, 401,
                                Failure("Invalid credentials."), ran,
                                Finally("open"), FALSE)]

\* session.clear()
ClearSession(sess) == EmptySession

\* The response of teacher_session: it is not behind teacher_required.
SessionOutcome(sess, fault) ==
    IF "user_type" \in DOMAIN sess /\ sess["user_type"] = "teacher"
    THEN Finished("session", NULL, fault, 200,
                  [logged_in |-> TRUE,
                   teacher |-> [id |-> sess["user_id"], name |-> sess["user_name"]]],
                  <<>>, "none", FALSE)
    ELSE Finished("session", NULL, fault, 200, [logged_in |-> FALSE],
                  <<>>, "none", FALSE)

----------------------------------------------------------------------------
(* GET /api/teacher/schedule, today_classes, all_classes                   *)

\* Schedules JOIN Classes JOIN Subjects WHERE s.teacher_id = %s
TeacherSchedules(teacher_id) == { s \in Schedules : s.teacher_id = teacher_id }

ScheduleRow(s) ==
    [day_of_week |-> s.day_of_week, start_time |-> Str(s.start_time),
     end_time |-> Str(s.end_time), batch |-> s.batch,
     class_name |-> s.class_name, subject_name |-> s.subject_name]

TodayRow(s) ==
    [schedule_id |-> s.schedule_id, start_time |-> Str(s.start_time),
     end_time |-> Str(s.end_time), batch |-> s.batch,
     class_name |-> s.class_name, subject_name |-> s.subject_name]

ClassRow(s) ==
    [schedule_id |-> s.schedule_id, class_name |-> s.class_name,
     subject_name |-> s.subject_name, batch |-> s.batch]

\* ORDER BY s.start_time
ByStartTime(S) == SortBy(S, [s \in S |-> s.start_time])

\* ORDER BY c.class_name, sub.subject_name, s.batch (and schedule_id, which
\* DISTINCT makes part of the row)
ByClass(S) ==
    SortBy(S, [s \in S |-> ((Rank(s.class_name) * 100 + Rank(s.subject_name)) * 100
                            + Rank(s.batch)) * 100 + s.schedule_id])

\* The try/finally the three schedule handlers share: one query, no except.
QueryOutcome(handler, sess, args, fault, query, rows) ==
    IF ~IsTeacher(sess) THEN Rejected(handler, args, fault)
    ELSE IF Connect(fault) = "none" THEN NoConnection(handler, args, fault)
    ELSE IF Fails(fault, 1)
    THEN Finished(handler, args, fault, 500, Uncaught("mysql.connector.Error"),
                  <<query>>, Finally(AfterQuery(fault, 1)), TRUE)
    ELSE Finished(handler, args, fault, 200, [success |-> TRUE, data |-> rows],
                  <<query>>, Finally("open"), FALSE)

----------------------------------------------------------------------------
(* Table `attendance` and the statements the handlers run on it.           *)

\* The table's unique key: one row per (student, schedule, date).
AttendanceKey(r) == <<r.student_id, r.schedule_id, r.attendance_date>>

\* The row INSERT builds from (student_id, schedule_id, date, status); the
\* column `timestamp` takes its default, if the table declares one.
NewRow(student_id, schedule_id, date, status, hasDefault) ==
    [student_id |-> student_id, schedule_id |-> schedule_id,
     attendance_date |-> date, status |-> status,
     timestamp |-> IF hasDefault THEN "ts" ELSE NULL]

\* What INSERT ... ON DUPLICATE KEY UPDATE does with `row`, given the rows
\* the statement sees: it inserts, or a row with that key makes it an update.
Effect(visible, row) ==
    IF \E r \in visible : AttendanceKey(r) = AttendanceKey(row)
    THEN [op |-> "update", row |-> row]
    ELSE [op |-> "insert", row |-> row]

\* The table with one effect applied: status = VALUES(status) on an update.
ApplyEffect(table, e) ==
    IF e.op = "insert" THEN table \cup {e.row}
    ELSE { IF AttendanceKey(r) = AttendanceKey(e.row)
           THEN [r EXCEPT !.status = e.row.status] ELSE r : r \in table }

\* Mutant: INSERT IGNORE, a row with the key keeps its old status.
UpsertKeepsOld(table, row) ==
    IF \E r \in table : AttendanceKey(r) = AttendanceKey(row) THEN table
    ELSE table \cup {row}

\* INSERT INTO attendance ... ON DUPLICATE KEY UPDATE status = VALUES(status)
Upsert(table, row) == ApplyEffect(table, Effect(table, row))

\* Rows affected, as MySQL counts them: 1 inserted, 2 updated, 0 unchanged.
Affected(table, row) ==
    LET dup == { r \in table : AttendanceKey(r) = AttendanceKey(row) }
    IN  IF dup = {} THEN 1
        ELSE IF \E r \in dup : r.status # row.status THEN 2 ELSE 0

\* cursor.executemany(query, records): the rows in list order.
RECURSIVE ExecuteMany(_, _)
ExecuteMany(table, rows) ==
    IF rows = <<>> THEN table
    ELSE ExecuteMany(Upsert(table, Head(rows)), Tail(rows))

\* cursor.rowcount after executemany
RECURSIVE RowCount(_, _)
RowCount(table, rows) ==
    IF rows = <<>> THEN 0
    ELSE Affected(table, Head(rows)) + RowCount(Upsert(table, Head(rows)), Tail(rows))

\* conn.commit(): the transaction's rows become the table.
Commit(committed, working) == working

\* Mutant: the rows written before the error stay (autocommit).
RollbackKeepsWrites(committed, working) == working

\* conn.rollback(): the table is what it was before the transaction.
Rollback(committed, working) == committed

\* Mutant: the lookup without its WHERE clause.
ScheduleInfoAny(schedule_id) == Schedules

\* SELECT batch FROM Schedules WHERE schedule_id = %s; fetchone()
ScheduleInfo(schedule_id) == { s \in Schedules : s.schedule_id = ArgInt(schedule_id) }

\* Mutant: ORDER BY student_id.
RosterById(batch) ==
    LET S == { st \in Students : st.batch = batch }
    IN  SortBy(S, [st \in S |-> st.student_id])

\* SELECT ... FROM Students WHERE batch = %s ORDER BY name
Roster(batch) ==
    LET S == { st \in Students : st.batch = batch }
    IN  SortBy(S, [st \in S |-> Rank(st.name)])

\* Mutant: the attendance query without its date condition.
AttendanceRowsAnyDate(table, schedule_id, date) ==
    { r \in table : r.schedule_id = ArgInt(schedule_id) }

\* SELECT student_id, status, timestamp FROM attendance
\* WHERE schedule_id = %s AND attendance_date = %s
AttendanceRows(table, schedule_id, date) ==
    { r \in table : r.schedule_id = ArgInt(schedule_id) /\ r.attendance_date = date }

----------------------------------------------------------------------------
(* GET /api/teacher/class_students                                         *)

StudentRow(st) ==
    [student_id |-> st.student_id, name |-> st.name, email |-> st.email,
     batch |-> st.batch]

ClassStudentsOutcome(sess, schedule_id, fault) ==
    LET h     == "class_students"
        args  == [schedule_id |-> schedule_id]
        info  == ScheduleInfo(schedule_id)
        batch == (CHOOSE s \in info : TRUE).batch
        caught(ran, i) ==
            Finished(h, args, fault, 500, Failure("Database Error"), ran,
                     Finally(AfterQuery(fault, i)), FALSE)
    IN  IF ~IsTeacher(sess) THEN Rejected(h, args, fault)
        ELSE IF schedule_id = "" 
        THEN Finished(h, args, fault, 400, Failure("Schedule ID is required."),
                      <<>>, "none", FALSE)
        ELSE IF Connect(fault) = "none" THEN NoConnection(h, args, fault)
        ELSE IF Fails(fault, 1) THEN caught(<<"schedule_lookup">>, 1)
        ELSE IF info = {}
        THEN Finished(h, args, fault, 404, Failure("Schedule not found."),
                      <<"schedule_lookup">>, Finally("open"), FALSE)
        ELSE IF Fails(fault, 2) THEN caught(<<"schedule_lookup", "roster">>, 2)
        ELSE Finished(h, args, fault, 200,
                      [success |-> TRUE,
                       data |-> [i \in 1..Len(Roster(batch)) |-> StudentRow(Roster(batch)[i])]],
                      <<"schedule_lookup", "roster">>, Finally("open"), FALSE)

----------------------------------------------------------------------------
(* POST /api/teacher/mark_attendance                                       *)

WellFormed(item) == {"student_id", "status"} \subseteq DOMAIN item

\* records = [(item['student_id'], schedule_id, date, item['status']) for item in ...]
Records(schedule_id, date, data, hasDefault) ==
    [i \in 1..Len(data) |->
        NewRow(data[i]["student_id"], ArgInt(schedule_id), date, data[i]["status"],
               hasDefault)]

\* The response of mark_attendance and the table it leaves.
MarkOutcome(sess, table, schedule_id, date, data, fault, hasDefault) ==
    LET h       == "mark_attendance"
        args    == [schedule_id |-> schedule_id, date |-> date, items |-> Len(data)]
        rows    == Records(schedule_id, date, data, hasDefault)
        failAt  == IF fault.kind = "err" /\ fault.at \in 1..Len(data)
                   THEN fault.at ELSE 0
        partial == ExecuteMany(table, SubSeq(rows, 1, failAt - 1))
        working == ExecuteMany(table, rows)
    IN  IF ~IsTeacher(sess)
        THEN [table |-> table, resp |-> Rejected(h, args, fault)]
        ELSE IF schedule_id = NULL \/ date = NULL \/ data = <<>>
        THEN [table |-> table,
              resp |-> Finished(h, args, fault, 400, Failure("Missing required data."),
                                <<>>, "none", FALSE)]
        ELSE IF Connect(fault) = "none"
        THEN [table |-> table, resp |-> NoConnection(h, args, fault)]
        ELSE IF \E i \in 1..Len(data) : ~WellFormed(data[i])
        THEN [table |-> table,
              resp |-> Finished(h, args, fault, 500, Uncaught("KeyError"), <<>>,
                                Finally("open"), TRUE)]
        ELSE IF failAt > 0
        THEN [table |-> Rollback(table, partial),
              resp |-> Finished(h, args, fault, 500, Failure("mysql.connector.Error"),
                                <<"upsert", "rollback">>, Finally("open"), FALSE)]
        ELSE IF fault.kind = "commit"
        THEN [table |-> Rollback(table, working),
              resp |-> Finished(h, args, fault, 500, Failure("mysql.connector.Error"),
                                <<"upsert", "commit", "rollback">>, Finally("open"), FALSE)]
        ELSE [table |-> Commit(table, working),
              resp |-> Finished(h, args, fault, 200,
                                [success |-> TRUE,
                                 message |-> <<"saved", RowCount(table, rows)>>],
                                <<"upsert", "commit">>, Finally("open"), FALSE)]

----------------------------------------------------------------------------
(* GET /api/teacher/attendance                                             *)

\* attendance_records = {rec['student_id']: rec for rec in cursor.fetchall()}
ByStudent(rows) ==
    [id \in { r.student_id : r \in rows } |-> CHOOSE r \in rows : r.student_id = id]

\* Step 4 of view_attendance: one record per roster student.
Merge(all_students, attendance_records) ==
    [i \in 1..Len(all_students) |->
        LET student == all_students[i]
            found   == student.student_id \in DOMAIN attendance_records
            record  == attendance_records[student.student_id]
        IN  [student_id    |-> student.student_id,
             student_name  |-> student.name,
             student_email |-> student.email,
             status        |-> IF found THEN record.status ELSE "absent",
             timestamp     |-> IF found /\ record.timestamp # NULL
                               THEN Str(record.timestamp) ELSE NULL]]

ViewOutcome(sess, table, schedule_id, date, fault) ==
    LET h     == "attendance"
        args  == [schedule_id |-> schedule_id, date |-> date]
        info  == ScheduleInfo(schedule_id)
        batch == (CHOOSE s \in info : TRUE).batch
        q1    == <<"schedule_lookup">>
        q2    == <<"schedule_lookup", "roster">>
        q3    == <<"schedule_lookup", "roster", "attendance_select">>
        caught(ran, i) ==
            Finished(h, args, fault, 500, Failure("Database error"), ran,
                     Finally(AfterQuery(fault, i)), FALSE)
    IN  IF ~IsTeacher(sess) THEN Rejected(h, args, fault)
        ELSE IF schedule_id = "" \/ date = ""
        THEN Finished(h, args, fault, 400, Failure("Schedule ID and date are required."),
                      <<>>, "none", FALSE)
        ELSE IF Connect(fault) = "none" THEN NoConnection(h, args, fault)
        ELSE IF Fails(fault, 1) THEN caught(q1, 1)
        ELSE IF info = {}
        THEN Finished(h, args, fault, 404, Failure("Schedule not found."), q1,
                      Finally("open"), FALSE)
        ELSE IF Fails(fault, 2) THEN caught(q2, 2)
        ELSE IF Fails(fault, 3) THEN caught(q3, 3)
        ELSE Finished(h, args, fault, 200,
                      [success |-> TRUE,
                       data |-> Merge(Roster(batch),
                                      ByStudent(AttendanceRows(table, schedule_id, date)))],
                      q3, Finally("open"), FALSE)

----------------------------------------------------------------------------
(* Bounds and the requests the clients send.                               *)

MaxBatchLen == 2      \* longest attendance_data list of the attendance runs
NumWorkers  == 2      \* requests served at the same time

Workers == 1..NumWorkers

Item(student_id, status) == [student_id |-> student_id, status |-> status]

Items(students) == { Item(st, status) : st \in students, status \in {"present", "absent"} }

MarkRequest(schedule_id, date, data) ==
    [schedule_id |-> schedule_id, date |-> date, attendance_data |-> data]

ViewRequest(schedule_id, date) == [schedule_id |-> schedule_id, date |-> date]

Credentials ==
    [email : {"tina@school", "omar@school", NULL}, password : {"pw5", "pw6", "bad", NULL}]

\* Requests of the whole-system runs: every handler, every exit path.
SystemMarks ==
    { MarkRequest(sid, date, data) :
        sid \in {"12", NULL}, date \in {"d1", NULL},
        data \in { <<Item(1, "present")>>, <<Item(1, "absent")>>, <<Item(2, "present")>>,
                   <<[status |-> "present"]>>, <<[student_id |-> 1]>>,
                   <<Item(2, "present"), [status |-> "absent"]>>, <<>> } }

SystemViews ==
    { ViewRequest(sid, date) : sid \in {"12", "13", "99", ""}, date \in {"d1", "d2", ""} }

QueryFaults == {NoFault, ConnFail, ErrAt(1), ErrAt(2), ErrAt(3), LostAt(1), LostAt(2)}

WriteFaults == {NoFault, ConnFail, CommitErr} \cup { ErrAt(i) : i \in 1..MaxBatchLen }

\* Requests of the attendance runs: lists of up to MaxBatchLen items for one
\* class and day, and single rows for another date, and for another schedule
\* whose batch the student is not in.
AttendanceMarks ==
    { MarkRequest("12", "d1", data) : data \in SeqsOf(Items({1, 2}), 1, MaxBatchLen) }
    \cup { MarkRequest("12", "d2", <<Item(3, "present")>>),
           MarkRequest("13", "d1", <<Item(1, "present")>>) }

AttendanceViews ==
    { ViewRequest(sid, date) : sid \in {"12", "13", "14"}, date \in {"d1", "d2"} }

\* Requests of the concurrent runs: all write student 1 of schedule 12 on d1,
\* some write student 2 as well, before or after.
ConcurrentMarks ==
    { MarkRequest("12", "d1", data) :
        data \in { <<Item(1, "present")>>, <<Item(1, "absent")>>,
                   <<Item(1, "present"), Item(2, "present")>>,
                   <<Item(2, "absent"), Item(1, "absent")>> } }

----------------------------------------------------------------------------
(* The log of committed upserts (a history variable).                      *)

RECURSIVE Log(_, _)
Log(log, rows) ==
    IF rows = <<>> THEN log
    ELSE LET k == AttendanceKey(Head(rows))
         IN Log([x \in DOMAIN log \cup {k} |->
                    IF x = k THEN Head(rows).status ELSE log[x]], Tail(rows))

----------------------------------------------------------------------------
(* Initial state and the handlers as actions.                              *)

NoRequest == Finished("none", NULL, NoFault, 0, [none |-> TRUE], <<>>, "none", FALSE)

NoWrites == [w \in Workers |-> <<>>]

NoMark == MarkRequest(NULL, NULL, <<>>)

Init ==
    /\ session = EmptySession
    /\ attendance = {}
    /\ tsDefault \in BOOLEAN
    /\ last = NoRequest
    /\ pc = [w \in Workers |-> "idle"]
    /\ req = [w \in Workers |-> NoMark]
    /\ writes = NoWrites
    /\ applied = [k \in {} |-> NULL]

Login(credentials, faults) ==
    \E c \in credentials, fault \in faults :
        \E o \in { LoginOutcome(session, c.email, c.password, fault) } :
            /\ session' = o.session
            /\ last' = o.resp
            /\ UNCHANGED <<attendance, tsDefault, pc, req, writes, applied>>

Logout ==
    /\ session' = ClearSession(session)
    /\ last' = Finished("logout", NULL, NoFault, 200, [success |-> TRUE], <<>>,
                        "none", FALSE)
    /\ UNCHANGED <<attendance, tsDefault, pc, req, writes, applied>>

TeacherSession ==
    /\ last' = SessionOutcome(session, NoFault)
    /\ UNCHANGED <<session, attendance, tsDefault, pc, req, writes, applied>>

\* The session's user_id, None when the session has none.
UserId(sess) == IF "user_id" \in DOMAIN sess THEN sess["user_id"] ELSE 0

GetTeacherSchedule ==
    \E fault \in {NoFault, ConnFail, ErrAt(1), LostAt(1)} :
    \E rows \in AnyOrder({ ScheduleRow(s) : s \in TeacherSchedules(UserId(session)) }) :
        /\ last' = QueryOutcome("schedule", session, NULL, fault, "schedule", rows)
        /\ UNCHANGED <<session, attendance, tsDefault, pc, req, writes, applied>>

GetTodayClasses ==
    \E fault \in {NoFault, ConnFail, ErrAt(1), LostAt(1)} :
    \E today_name \in {"Monday", "Tuesday", "Sunday"} :
        LET S    == { s \in TeacherSchedules(UserId(session)) : s.day_of_week = today_name }
            rows == [i \in 1..Cardinality(S) |-> TodayRow(ByStartTime(S)[i])]
        IN  /\ last' = QueryOutcome("today_classes", session, [today |-> today_name],
                                    fault, "today_classes", rows)
            /\ UNCHANGED <<session, attendance, tsDefault, pc, req, writes, applied>>

GetAllTeacherClasses ==
    \E fault \in {NoFault, ConnFail, ErrAt(1), LostAt(1)} :
        LET S    == TeacherSchedules(UserId(session))
            rows == [i \in 1..Cardinality(S) |-> ClassRow(ByClass(S)[i])]
        IN  /\ last' = QueryOutcome("all_classes", session, NULL, fault, "all_classes", rows)
            /\ UNCHANGED <<session, attendance, tsDefault, pc, req, writes, applied>>

GetClassStudents ==
    \E schedule_id \in {"12", "13", "99", ""}, fault \in QueryFaults :
        /\ fault.at <= 2
        /\ last' = ClassStudentsOutcome(session, schedule_id, fault)
        /\ UNCHANGED <<session, attendance, tsDefault, pc, req, writes, applied>>

MarkAttendance(requests, faults) ==
    \E r \in requests, fault \in faults :
        /\ fault.at <= Len(r.attendance_data)
        /\ \E o \in { MarkOutcome(session, attendance, r.schedule_id, r.date,
                                   r.attendance_data, fault, tsDefault) } :
            /\ attendance' = o.table
            /\ last' = o.resp
            /\ applied' = IF o.resp.code = 200
                          THEN Log(applied, Records(r.schedule_id, r.date,
                                                    r.attendance_data, tsDefault))
                          ELSE applied
            /\ UNCHANGED <<session, tsDefault, pc, req, writes>>

ViewAttendance(requests, faults) ==
    \E r \in requests, fault \in faults :
        /\ last' = ViewOutcome(session, attendance, r.schedule_id, r.date, fault)
        /\ UNCHANGED <<session, attendance, tsDefault, pc, req, writes, applied>>

\* The whole system, one request at a time.
Next ==
    \/ Login(Credentials, {NoFault, ConnFail, ErrAt(1), LostAt(1)})
    \/ Logout
    \/ TeacherSession
    \/ GetTeacherSchedule
    \/ GetTodayClasses
    \/ GetAllTeacherClasses
    \/ GetClassStudents
    \/ MarkAttendance(SystemMarks, WriteFaults)
    \/ ViewAttendance(SystemViews, QueryFaults)

Spec == Init /\ [][Next]_vars

\* The attendance write and view, with longer lists and more rows.
NextAttendance ==
    \/ Login({[email |-> "tina@school", password |-> "pw5"]}, {NoFault})
    \/ MarkAttendance(AttendanceMarks, WriteFaults \ {ConnFail})
    \/ ViewAttendance(AttendanceViews, {NoFault})

SpecAttendance == Init /\ [][NextAttendance]_vars

----------------------------------------------------------------------------
(* mark_attendance requests served at the same time.  Each worker runs the *)
(* handler on its own connection; the database sees one transaction per    *)
(* request: the upserts row by row, then COMMIT, or ROLLBACK on an error.  *)

\* The effects of a transaction applied in order.
RECURSIVE ApplyAll(_, _)
ApplyAll(table, effects) ==
    IF effects = <<>> THEN table
    ELSE ApplyAll(ApplyEffect(table, Head(effects).effect), Tail(effects))

\* What worker w's transaction sees: the committed rows and its own writes.
Visible(w) == ApplyAll(attendance, writes[w])

\* The rows of worker w's request, and the next one it has to write.
RowsOf(w) == Records(req[w].schedule_id, req[w].date, req[w].attendance_data, tsDefault)

NextRow(w) == RowsOf(w)[Len(writes[w]) + 1]

\* Mutant: no lock, as a SELECT followed by an INSERT or UPDATE would run.
RowLockedNever(w, row) == FALSE

\* An upsert holds its row's key, present or not, until its transaction
\* ends: a second transaction writing that key waits.
RowLocked(w, row) ==
    \E v \in Workers \ {w} : \E i \in 1..Len(writes[v]) :
        AttendanceKey(writes[v][i].effect.row) = AttendanceKey(row)

RECURSIVE SumAffected(_)
SumAffected(effects) ==
    IF effects = <<>> THEN 0 ELSE Head(effects).affected + SumAffected(Tail(effects))

\* The handler up to cursor.executemany: the gate, the checks, the connection.
BeginMark(w) ==
    /\ pc[w] = "idle"
    /\ \E r \in ConcurrentMarks :
        \E o \in { MarkOutcome(session, attendance, r.schedule_id, r.date,
                               r.attendance_data, NoFault, tsDefault) } :
            IF o.resp.code = 200
            THEN /\ pc' = [pc EXCEPT ![w] = "executing"]
                 /\ req' = [req EXCEPT ![w] = r]
                 /\ UNCHANGED <<session, attendance, tsDefault, last, writes, applied>>
            ELSE /\ last' = o.resp
                 /\ UNCHANGED <<session, attendance, tsDefault, pc, req, writes, applied>>

\* One row of executemany's statement.
UpsertRow(w) ==
    /\ pc[w] = "executing"
    /\ Len(writes[w]) < Len(req[w].attendance_data)
    /\ ~RowLocked(w, NextRow(w))
    /\ writes' = [writes EXCEPT ![w] =
                    Append(@, [effect   |-> Effect(Visible(w), NextRow(w)),
                               affected |-> Affected(Visible(w), NextRow(w))])]
    /\ UNCHANGED <<session, attendance, tsDefault, last, pc, req, applied>>

\* conn.commit(), the success response, and the finally clause.
CommitMark(w) ==
    /\ pc[w] = "executing"
    /\ Len(writes[w]) = Len(req[w].attendance_data)
    /\ attendance' = Commit(attendance, Visible(w))
    /\ applied' = Log(applied, RowsOf(w))
    /\ last' = Finished("mark_attendance",
                        [schedule_id |-> req[w].schedule_id, date |-> req[w].date,
                         items |-> Len(req[w].attendance_data)],
                        NoFault, 200,
                        [success |-> TRUE, message |-> <<"saved", SumAffected(writes[w])>>],
                        <<"upsert", "commit">>, Finally("open"), FALSE)
    /\ pc' = [pc EXCEPT ![w] = "idle"]
    /\ writes' = [writes EXCEPT ![w] = <<>>]
    /\ req' = [req EXCEPT ![w] = NoMark]
    /\ UNCHANGED <<session, tsDefault>>

\* mysql.connector.Error while the transaction is open (a deadlock or a lock
\* wait timeout among them): conn.rollback(), the 500 response, finally.
AbortMark(w) ==
    /\ pc[w] = "executing"
    /\ attendance' = Rollback(attendance, Visible(w))
    /\ last' = Finished("mark_attendance",
                        [schedule_id |-> req[w].schedule_id, date |-> req[w].date,
                         items |-> Len(req[w].attendance_data)],
                        ErrAt(Len(writes[w]) + 1), 500, Failure("mysql.connector.Error"),
                        <<"upsert", "rollback">>, Finally("open"), FALSE)
    /\ pc' = [pc EXCEPT ![w] = "idle"]
    /\ writes' = [writes EXCEPT ![w] = <<>>]
    /\ req' = [req EXCEPT ![w] = NoMark]
    /\ UNCHANGED <<session, tsDefault, applied>>

NextConcurrent ==
    \/ Login({[email |-> "tina@school", password |-> "pw5"]}, {NoFault})
    \/ \E w \in Workers : BeginMark(w)
    \/ \E w \in Workers : UpsertRow(w)
    \/ \E w \in Workers : CommitMark(w)
    \/ \E w \in Workers : AbortMark(w)

SpecConcurrent == Init /\ [][NextConcurrent]_vars

----------------------------------------------------------------------------
(* Properties.                                                             *)

GatedHandlers ==
    {"schedule", "today_classes", "all_classes", "class_students",
     "mark_attendance", "attendance"}

ApiHandlers == GatedHandlers \cup {"session"}

DbHandlers == GatedHandlers \cup {"login"}

\* The last request was an attendance view that answered with its list.
Viewed == last.handler = "attendance" /\ last.code = 200

\* The students of the batch of the schedule the last request named.
BatchStudents ==
    { st \in Students :
        \E sc \in Schedules : /\ sc.schedule_id = ArgInt(last.args.schedule_id)
                              /\ sc.batch = st.batch }

\* The stored rows for a student, for the schedule and date of the last request.
StoredFor(student_id) ==
    { r \in attendance : /\ r.student_id = student_id
                         /\ r.schedule_id = ArgInt(last.args.schedule_id)
                         /\ r.attendance_date = last.args.date }

\* C1: an authenticated attendance view for an existing schedule and a
\* non-empty date answers 200 with exactly one record per student of the
\* schedule's batch, in ascending order of name, whatever rows the attendance
\* table holds.
C1_ViewListsRoster ==
    /\ ( /\ last.handler = "attendance"
         /\ last.code # 401
         /\ last.fault = NoFault
         /\ last.args.date # ""
         /\ \E sc \in Schedules : sc.schedule_id = ArgInt(last.args.schedule_id) )
       => last.code = 200
    /\ Viewed =>
        LET data == last.body.data
        IN  /\ Len(data) = Cardinality(BatchStudents)
            /\ { data[i].student_id : i \in 1..Len(data) }
                 = { st.student_id : st \in BatchStudents }
            /\ \A i \in 1..Len(data) : \E st \in BatchStudents :
                 /\ st.student_id = data[i].student_id
                 /\ st.name = data[i].student_name
            /\ \A i, j \in 1..Len(data) :
                 i < j => Rank(data[i].student_name) < Rank(data[j].student_name)

\* C1's case: a view of schedule 13 while the table holds a row of that
\* schedule for a student outside its batch, a row of another schedule and a
\* row of another date.
C1_Witness ==
    /\ Viewed
    /\ last.args = ViewRequest("13", "d1")
    /\ \E r \in attendance : r.schedule_id = 13 /\ r.student_id = 1
    /\ \E r \in attendance : r.schedule_id = 12 /\ r.attendance_date = "d1"
    /\ \E r \in attendance : r.attendance_date = "d2"

\* C2: in the view, a student's status is the status of the stored row keyed
\* by (student, schedule, date) when there is one, and otherwise "absent" with
\* a null timestamp; when the only row for schedule 12 on the date marks
\* student 1 present, student 1 reads "present" and student 2 "absent".
C2_ViewStatus ==
    Viewed =>
        LET data == last.body.data
        IN  /\ \A i \in 1..Len(data) :
                 IF StoredFor(data[i].student_id) # {}
                 THEN \A r \in StoredFor(data[i].student_id) : data[i].status = r.status
                 ELSE data[i].status = "absent" /\ data[i].timestamp = NULL
            /\ ( /\ last.args = ViewRequest("12", "d1")
                 /\ StoredFor(1) # {}
                 /\ \A r \in StoredFor(1) : r.status = "present"
                 /\ StoredFor(2) = {} )
               => /\ \E i \in 1..Len(data) :
                       data[i].student_id = 1 /\ data[i].status = "present"
                  /\ \E i \in 1..Len(data) :
                       data[i].student_id = 2 /\ data[i].status = "absent"

\* C2's case: student 1 alone is marked present for schedule 12 on d1, a row
\* of another date exists, and the view of schedule 12 on d1 has answered.
C2_Witness ==
    /\ Viewed
    /\ last.args = ViewRequest("12", "d1")
    /\ \E r \in StoredFor(1) : r.status = "present"
    /\ StoredFor(2) = {}
    /\ StoredFor(3) = {}
    /\ \E r \in attendance : r.student_id = 3 /\ r.attendance_date = "d2"

\* C3: the table holds at most one row per (student, schedule, date), a row
\* for exactly the keys some successful call wrote, with the status of the
\* most recent successful write of that key; and a successful call repeated
\* with the same list leaves the table as its first run left it.
C3_UpsertLatestWins ==
    /\ \A r1, r2 \in attendance : AttendanceKey(r1) = AttendanceKey(r2) => r1 = r2
    /\ { AttendanceKey(r) : r \in attendance } = DOMAIN applied
    /\ \A r \in attendance : r.status = applied[AttendanceKey(r)]
    /\ \A r \in AttendanceMarks :
        LET once  == MarkOutcome(session, attendance, r.schedule_id, r.date,
                                 r.attendance_data, NoFault, tsDefault).table
            twice == MarkOutcome(session, once, r.schedule_id, r.date,
                                 r.attendance_data, NoFault, tsDefault).table
        IN  twice = once

\* C3's case: a successful call has just changed the status of a stored row
\* (MySQL counts 2 rows affected for an update), and the key has one row.
C3_Witness ==
    /\ last.handler = "mark_attendance"
    /\ last.code = 200
    /\ last.args.items = 1
    /\ last.body.message = <<"saved", 2>>
    /\ Cardinality({ r \in attendance : r.schedule_id = 12
                                         /\ r.attendance_date = "d1" }) >= 1

\* C4: a login whose email and password match a stored teacher answers 200
\* and leaves the session identifying that teacher; a login whose email and
\* password match no teacher answers 401 and leaves the session as it was.
C4_Login ==
    [][ last'.handler = "login" =>
          LET match == { t \in Teachers : /\ t.email = last'.args.email
                                          /\ t.password = last'.args.password }
              ran   == last'.fault = NoFault /\ last'.args.email # NULL
                                             /\ last'.args.password # NULL
          IN  /\ (ran /\ match # {}) =>
                   /\ last'.code = 200
                   /\ last'.body.success
                   /\ \E t \in match :
                        session' = [user_type |-> "teacher", user_id |-> t.teacher_id,
                                    user_name |-> t.name]
              /\ (ran /\ match = {}) => last'.code = 401
              /\ last'.code = 200 => match # {}
              /\ last'.code # 200 => session' = session ]_vars

\* C4's case: with teacher 5 logged in, a login with Omar's email and a wrong
\* password has answered 401, and the session still names teacher 5.
C4_Witness ==
    /\ last.handler = "login"
    /\ last.code = 401
    /\ last.args = [email |-> "omar@school", password |-> "bad"]
    /\ IsTeacher(session)
    /\ session["user_id"] = 5

\* C5 as stated: every /api/teacher/* endpoint, session included, answers 401
\* with no data and without touching the database when the session does not
\* mark a teacher.
C5_Original ==
    (last.handler \in ApiHandlers /\ ~("user_type" \in DOMAIN session))
        => /\ last.code = 401
           /\ ~("data" \in DOMAIN last.body)
           /\ last.ran = <<>>

\* C5, amended: the six endpoints behind teacher_required answer 401 with
\* {success: false, message}, no data, no connection and no statement when
\* the session does not mark a teacher; /api/teacher/session is not behind the
\* gate and answers 200 with {logged_in: false}, also without the database.
C5_GatedEndpoints ==
    ~("user_type" \in DOMAIN session) =>
        /\ last.handler \in GatedHandlers =>
             /\ last.code = 401
             /\ last.body = Failure("Authentication required")
             /\ last.ran = <<>>
             /\ last.opened = 0
        /\ last.handler = "session" =>
             /\ last.code = 200
             /\ last.body = [logged_in |-> FALSE]
             /\ last.ran = <<>>
             /\ last.opened = 0

\* C5's case: rows were written under a session, the session has been
\* cleared since, and mark_attendance has been refused.
C5_Witness ==
    /\ last.handler = "mark_attendance"
    /\ last.code = 401
    /\ session = EmptySession
    /\ attendance # {}

\* C6: for a teacher, class_students and attendance (with a date) answer 404
\* with success false and no data when the schedule_id names no schedule,
\* having run the schedule lookup alone; without a schedule_id they answer 400
\* and open no connection.
C6_UnknownSchedule ==
    (last.handler \in {"class_students", "attendance"} /\ IsTeacher(session)) =>
        /\ ( /\ last.args.schedule_id # ""
             /\ last.handler = "attendance" => last.args.date # ""
             /\ ~ \E sc \in Schedules : sc.schedule_id = ArgInt(last.args.schedule_id)
             /\ last.fault.kind # "connfail"
             /\ last.fault.at # 1 )
           => /\ last.code = 404
              /\ last.body.success = FALSE
              /\ ~("data" \in DOMAIN last.body)
              /\ last.ran = <<"schedule_lookup">>
        /\ last.args.schedule_id = ""
           => /\ last.code = 400
              /\ last.body.success = FALSE
              /\ last.opened = 0
              /\ last.ran = <<>>

\* C6's case: a teacher has asked for the students of schedule 99.
C6_Witness ==
    /\ last.handler = "class_students"
    /\ IsTeacher(session)
    /\ last.args.schedule_id = "99"
    /\ last.code = 404

\* C7: a mark_attendance that meets a database error in executemany or in
\* commit leaves the attendance table as it was before the call and answers
\* 500 with {success: false, message}.
C7_RollbackWholeBatch ==
    [][ ( /\ last'.handler = "mark_attendance"
          /\ last'.fault.kind \in {"err", "commit"}
          /\ last'.ran # <<>> )
        => /\ attendance' = attendance
           /\ applied' = applied
           /\ last'.code = 500
           /\ DOMAIN last'.body = {"success", "message"}
           /\ last'.body.success = FALSE ]_vars

\* C7's case: the second row of a list has failed, after the first row, a
\* new one, had been written in the transaction.
C7_Witness ==
    /\ last.handler = "mark_attendance"
    /\ last.fault = ErrAt(2)
    /\ last.code = 500
    /\ last.args.schedule_id = "12" /\ last.args.date = "d1"
    /\ ~ \E r \in attendance : r.schedule_id = 12 /\ r.attendance_date = "d1"
    /\ attendance # {}

\* C8: when a request has finished, the connection it opened, if any, is no
\* longer open, and it opened at most one.
C8_ConnectionReleased ==
    /\ last.conn # "open"
    /\ last.opened <= 1
    /\ last.opened = 1 => last.conn \in {"closed", "lost"}

\* C8's case: an exception has left mark_attendance after it had obtained its
\* connection.
C8_Witness ==
    /\ last.handler = "mark_attendance"
    /\ last.escaped
    /\ last.opened = 1
    /\ last.conn = "closed"

\* C9 as stated: whatever fails in a handler, the request ends with a
\* {success: false, message} response and no exception leaves the handler.
C9_Original ==
    (last.handler \in DbHandlers /\ last.code >= 400) =>
        /\ ~last.escaped
        /\ DOMAIN last.body = {"success", "message"}
        /\ last.body.success = FALSE

\* C10: however the upserts and commits of concurrent requests interleave,
\* the committed table holds one row per key that a committed request wrote,
\* with the status of the upsert committed last, and no other row.
C10_ConcurrentUpsert ==
    /\ \A r1, r2 \in attendance : AttendanceKey(r1) = AttendanceKey(r2) => r1 = r2
    /\ { AttendanceKey(r) : r \in attendance } = DOMAIN applied
    /\ \A r \in attendance : r.status = applied[AttendanceKey(r)]

\* C10's case: a request has committed a row while another request, which
\* has written its first row and has yet to write that row with a different
\* status, is still in its transaction.
C10_Witness ==
    /\ last.handler = "mark_attendance" /\ last.code = 200
    /\ \E w \in Workers :
        /\ pc[w] = "executing"
        /\ writes[w] # <<>>
        /\ Len(writes[w]) < Len(req[w].attendance_data)
        /\ \E r \in attendance :
            /\ AttendanceKey(r) = AttendanceKey(NextRow(w))
            /\ r.status # NextRow(w).status

====
